---- MODULE Spec2Model ----
(***************************************************************************)
(* Model of the dev.to publisher action (src/src/index.js).                *)
(*                                                                         *)
(*   publishToDevTo  reads one markdown file, maps its front-matter onto   *)
(*                   the article payload, prunes empty fields and either   *)
(*                   logs the payload (dry run) or POSTs it.               *)
(*   run             reads the action inputs, discovers the markdown       *)
(*                   files, publishes them one after the other and sets    *)
(*                   the outputs.                                          *)
(*                                                                         *)
(* Two specifications:                                                     *)
(*   Spec         a whole run() of the action;                             *)
(*   PublishSpec  one direct call of publishToDevTo, as the tests make it, *)
(*                over the full domain of front-matter values.             *)
(***************************************************************************)
EXTENDS Integers, Sequences, FiniteSets, TLC

VARIABLES
    inputs,             \* the action inputs (core.getInput)
    dir,                \* the posts directory on disk: state and entries
    pc,                 \* position of the control flow
    postsDirectory,     \* run: const postsDirectory
    forcePublished,     \* run: const forcePublished / publishToDevTo's argument
    dryRun,             \* run: const dryRun / publishToDevTo's argument
    files,              \* run: const files
    i,                  \* position of `file` in the for..of loop over files
    publishedArticles,  \* run: const publishedArticles
    filePath,           \* publishToDevTo: filePath of the call in progress
    frontMatter,        \* publishToDevTo: front-matter parsed from the file
    parsedContent,      \* publishToDevTo: content parsed from the file
    article,            \* publishToDevTo: <<article>> once built, else <<>>
    inflight,           \* HTTP requests issued and not yet answered
    reads,              \* history: files read, in order
    posts,              \* history: files an HTTP POST was issued for, in order
    logged,             \* history: <<payload>> last logged by a dry run, else <<>>
    delays,             \* history: pacing delays taken, in order
    outcomes,           \* history: how each publishToDevTo call ended
    log,                \* history: core.info / warning / error notices
    outputs,            \* core.setOutput: name -> value
    failed              \* core.setFailed was called

vars == <<inputs, dir, pc, postsDirectory, forcePublished, dryRun, files, i, publishedArticles,
          filePath, frontMatter, parsedContent, article, inflight, reads, posts, logged,
          delays, outcomes, log, outputs, failed>>

(***************************************************************************)
(* Bounds of the model.                                                    *)
(***************************************************************************)
MaxFiles == 3

(***************************************************************************)
(* JavaScript values.  Every value is [type, val] with val a sequence of   *)
(* strings: the characters of a string, the elements of an array, the      *)
(* literal of a number or boolean.                                         *)
(***************************************************************************)
Undefined == [type |-> "undefined", val |-> <<>>]
Null      == [type |-> "null", val |-> <<>>]
Str(s)    == [type |-> "string", val |-> s]
Arr(s)    == [type |-> "array", val |-> s]
Num(s)    == [type |-> "number", val |-> s]
Bool(b)   == [type |-> "boolean", val |-> IF b THEN <<"true">> ELSE <<"false">>]

EmptyString == Str(<<>>)
EmptyArray  == Arr(<<>>)
Zero        == Num(<<"0">>)
False       == Bool(FALSE)
True        == Bool(TRUE)

\* ToBoolean: undefined, null, '', 0 and false are falsy; every array is truthy.
Truthy(v) ==
    CASE v.type = "undefined" -> FALSE
      [] v.type = "null"      -> FALSE
      [] v.type = "string"    -> Len(v.val) > 0
      [] v.type = "number"    -> v.val # <<"0">>
      [] v.type = "boolean"   -> v.val = <<"true">>
      [] OTHER                -> TRUE

\* a || b
Or(a, b) == IF Truthy(a) THEN a ELSE b

\* Array.isArray(v)
IsArray(v) == v.type = "array"

(***************************************************************************)
(* Strings as sequences of characters.                                     *)
(***************************************************************************)
\* String.prototype.endsWith
EndsWith(s, suffix) ==
    /\ Len(suffix) <= Len(s)
    /\ SubSeq(s, Len(s) - Len(suffix) + 1, Len(s)) = suffix

\* \w of a regular expression
IsWordChar(c) ==
    c \in {"a", "b", "d", "m", "s", "x", "y", "A", "B", "D", "M", "S", "X", "Y",
           "0", "1", "2", "_"}

\* toUpperCase of one character
ToUpperCase(c) ==
    CASE c = "a" -> "A" [] c = "b" -> "B" [] c = "d" -> "D" [] c = "m" -> "M"
      [] c = "s" -> "S" [] c = "x" -> "X" [] c = "y" -> "Y" [] OTHER -> c

\* s.replace(/-/g, ' ')
ReplaceHyphens(s) == [p \in 1..Len(s) |-> IF s[p] = "-" THEN " " ELSE s[p]]

\* s.replace(/\b\w/g, l => l.toUpperCase()): a word character is at a word
\* boundary when no word character precedes it.
CapitalizeWords(s) ==
    [p \in 1..Len(s) |->
        IF IsWordChar(s[p]) /\ (p = 1 \/ ~IsWordChar(s[p - 1]))
        THEN ToUpperCase(s[p]) ELSE s[p]]

\* Position of the last "/" of p, 0 when there is none.
LastSlash(p) ==
    LET at == {k \in 1..Len(p) : p[k] = "/"}
    IN  IF at = {} THEN 0 ELSE CHOOSE k \in at : \A j \in at : j <= k

\* path.basename(p, ext): the last portion of p, without ext when the portion
\* ends with ext and is more than ext.
Basename(p, ext) ==
    LET base == SubSeq(p, LastSlash(p) + 1, Len(p))
    IN  IF p = ext THEN <<>>
        ELSE IF EndsWith(base, ext) /\ Len(base) > Len(ext)
             THEN SubSeq(base, 1, Len(base) - Len(ext))
             ELSE base

\* path.join(d, f) of a directory and a relative entry
Join(d, f) == d \o <<"/">> \o f

MdExt == <<".", "m", "d">>

(***************************************************************************)
(* publishToDevTo: the mapping of front-matter onto the article payload.   *)
(***************************************************************************)
FrontMatterKeys ==
    {"title", "published", "tags", "description", "canonical_url",
     "cover_image", "main_image", "series", "organization_id", "organization",
     "created_at", "date", "edited_at", "updated"}

ArticleFields ==
    {"title", "body_markdown", "published", "tags", "description",
     "canonical_url", "main_image", "series", "organization_id", "created_at",
     "edited_at"}

\* const title = frontMatter.title || path.basename(filePath, '.md')...
Title(fm, path) ==
    Or(fm["title"], Str(CapitalizeWords(ReplaceHyphens(Basename(path, MdExt)))))

\* ArticleField with the override replacing the front-matter's published.
ArticleFieldMutantOverrideReplaces(fm, path, content, force, k) ==
    CASE k = "title"           -> Title(fm, path)
      [] k = "body_markdown"   -> Str(content)
      [] k = "published"       -> Bool(force)
      [] k = "tags"            -> Or(fm["tags"], EmptyArray)
      [] k = "description"     -> Or(fm["description"], EmptyString)
      [] k = "canonical_url"   -> Or(fm["canonical_url"], EmptyString)
      [] k = "main_image"      -> Or(Or(fm["cover_image"], fm["main_image"]), EmptyString)
      [] k = "series"          -> Or(fm["series"], EmptyString)
      [] k = "organization_id" ->
            Or(Or(fm["organization_id"], fm["organization"]), EmptyString)
      [] k = "created_at"      -> Or(Or(fm["created_at"], fm["date"]), EmptyString)
      [] k = "edited_at"       -> Or(Or(fm["edited_at"], fm["updated"]), EmptyString)

\* One field of the article literal.
ArticleField(fm, path, content, force, k) ==
    CASE k = "title"           -> Title(fm, path)
      [] k = "body_markdown"   -> Str(content)
      [] k = "published"       -> Or(Or(Bool(force), fm["published"]), False)
      [] k = "tags"            -> Or(fm["tags"], EmptyArray)
      [] k = "description"     -> Or(fm["description"], EmptyString)
      [] k = "canonical_url"   -> Or(fm["canonical_url"], EmptyString)
      [] k = "main_image"      -> Or(Or(fm["cover_image"], fm["main_image"]), EmptyString)
      [] k = "series"          -> Or(fm["series"], EmptyString)
      [] k = "organization_id" ->
            Or(Or(fm["organization_id"], fm["organization"]), EmptyString)
      [] k = "created_at"      -> Or(Or(fm["created_at"], fm["date"]), EmptyString)
      [] k = "edited_at"       -> Or(Or(fm["edited_at"], fm["updated"]), EmptyString)

\* const article = { ... }
NewArticle(fm, path, content, force) ==
    [k \in ArticleFields |-> ArticleField(fm, path, content, force, k)]

\* IsEmptyField without the test for an empty array.
IsEmptyFieldMutantStringsOnly(v) == v = EmptyString

\* article[key] === '' || (Array.isArray(article[key]) && article[key].length === 0)
IsEmptyField(v) == v = EmptyString \/ (IsArray(v) /\ Len(v.val) = 0)

\* RemoveEmptyFields sparing the first three fields of the article.
RemoveEmptyFieldsMutantSparesRequired(a) ==
    [k \in {f \in DOMAIN a :
                f \in {"title", "body_markdown", "published"} \/ ~IsEmptyField(a[f])} |-> a[k]]

\* Object.keys(article).forEach(key => { if (...) delete article[key]; })
RemoveEmptyFields(a) ==
    [k \in {f \in DOMAIN a : ~IsEmptyField(a[f])} |-> a[k]]

\* The payload publishToDevTo logs or sends.
Payload(fm, path, content, force) ==
    RemoveEmptyFields(NewArticle(fm, path, content, force))

\* return { url: 'dry-run-url', title, id: 'dry-run' }
DryRunResult(title) ==
    [url   |-> Str(<<"dry-run-url">>),
     title |-> title,
     id    |-> Str(<<"dry-run">>)]

\* return { url: response.data.url, title: ..., id: ..., published: ... }
SuccessResult(data) ==
    [url       |-> data.url,
     title     |-> data.title,
     id        |-> data.id,
     published |-> data.published]

(***************************************************************************)
(* The environment: inputs, directory listings, file contents, responses.  *)
(***************************************************************************)
\* Entries fs.readdirSync(dir, { recursive: true }) can return, in one
\* traversal order of the file system.
Traversal ==
    << <<"m", "y", "-", "a", ".", "m", "d">>,
       <<"n", ".", "t", "x", "t">>,
       <<"b", "_", "2", ".", "m", "d">>,
       <<"s", "/", "x", "-", "-", "y", ".", "m", "d">>,
       <<"d", ".", "m", "d">> >>

DirEntries == {Traversal[p] : p \in DOMAIN Traversal}

\* The entries at the positions ps of the traversal, in its order.
Pick(ps) == SelectSeq(Traversal, LAMBDA e : \E p \in ps : Traversal[p] = e)

\* A listing names each entry once, in the order of the traversal, which is
\* not the sorted order.
Listings ==
    {Pick(ps) : ps \in {x \in SUBSET DOMAIN Traversal : Cardinality(x) <= MaxFiles}}

Directories ==
    {[state |-> "absent", entries |-> <<>>],
     [state |-> "unlistable", entries |-> <<>>]}
    \cup {[state |-> "listed", entries |-> l] : l \in Listings}

Inputs ==
    [apiKey         : {"", "key"},
     postsDirectory : {<<>>, <<"d">>},
     published      : {"true", "false"},
     dryRun         : {"true", "false"}]

Values ==
    {Undefined, Null, EmptyString, Str(<<"s">>), Str(<<"t">>), EmptyArray,
     Arr(<<"x">>), Zero, Num(<<"5">>), False, True}

EmptyFrontMatter == [k \in FrontMatterKeys |-> Undefined]

FullFrontMatter ==
    [k \in FrontMatterKeys |->
        CASE k = "published"                        -> True
          [] k = "tags"                             -> Arr(<<"x">>)
          [] k \in {"organization_id", "organization"} -> Num(<<"5">>)
          [] OTHER                                  -> Str(<<"t">>)]

\* The front-matter keys one article field is read from.
Sources(f) ==
    CASE f = "main_image"      -> {"cover_image", "main_image"}
      [] f = "organization_id" -> {"organization_id", "organization"}
      [] f = "created_at"      -> {"created_at", "date"}
      [] f = "edited_at"       -> {"edited_at", "updated"}
      [] f = "body_markdown"   -> {}
      [] OTHER                 -> {f}

Overlay(base, assign) ==
    [k \in FrontMatterKeys |-> IF k \in DOMAIN assign THEN assign[k] ELSE base[k]]

\* Front-matters of a direct call: every combination of values of the sources
\* of one field, over a front-matter that is otherwise empty or full.
FrontMatters ==
    {Overlay(base, assign) :
        base \in {EmptyFrontMatter, FullFrontMatter},
        assign \in UNION {[Sources(f) -> Values] : f \in ArticleFields}}

\* Front-matters of the files of a run.
RunFrontMatters ==
    {Overlay(EmptyFrontMatter, [k \in {"title"} |-> v]) :
        v \in {Undefined, EmptyString, Str(<<"s">>), EmptyArray}}
    \cup {FullFrontMatter}

Contents == {<<>>, <<"#">>}

\* response.data of a 2xx answer
ResponseData ==
    [url : {Str(<<"u">>)}, title : {Str(<<"t">>)}, id : {Num(<<"5">>)},
     published : {True, Undefined}]

\* What makes axios.post reject: no answer, or an answer outside 2xx.
PostErrors == {"network-error", "api-error"}

(***************************************************************************)
(* Helpers of run.                                                         *)
(***************************************************************************)
\* InputMissing for an input that is not required.
InputMissingMutantNotRequired(v) == FALSE

\* core.getInput(name, { required: true }) throws when the input is not supplied.
InputMissing(v) == v = ""

\* const postsDirectory = core.getInput('posts-directory') || 'posts'
PostsDirectoryOf(v) == IF v # <<>> THEN v ELSE <<"p", "o", "s", "t", "s">>

\* IsTrueInput comparing with a literal the input never equals.
IsTrueInputMutantWrongLiteral(v) == v = "TRUE"

\* core.getInput(name) === 'true'
IsTrueInput(v) == v = "true"

\* IsMarkdown without the filter.
IsMarkdownMutantAnyFile(file) == TRUE

\* file => file.endsWith('.md')
IsMarkdown(file) == EndsWith(file, MdExt)

\* readdirSync(...).filter(...).map(file => path.join(postsDirectory, file))
DiscoverFiles(d, entries) ==
    LET md == SelectSeq(entries, IsMarkdown)
    IN  [p \in 1..Len(md) |-> Join(d, md[p])]

\* files.indexOf(file), counted from 1; 0 when file is not in files
IndexOf(fs, f) ==
    IF \E p \in 1..Len(fs) : fs[p] = f
    THEN CHOOSE p \in 1..Len(fs) : fs[p] = f /\ \A q \in 1..(p - 1) : fs[q] # f
    ELSE 0

\* setTimeout(resolve, 1000)
DelayMs == 1000

\* TakesDelay without the test for a remaining file.
TakesDelayMutantAfterLast(dry, fs, f) == ~dry

\* if (!dryRun && files.indexOf(file) < files.length - 1)
TakesDelay(dry, fs, f) == ~dry /\ IndexOf(fs, f) < Len(fs)

\* publishedArticles.push(result)
Push(list, result) == Append(list, result)

\* JSON.stringify(publishedArticles): a property whose value is undefined is
\* left out of the text.
JsonStringify(list) ==
    [p \in 1..Len(list) |->
        [k \in {f \in DOMAIN list[p] : list[p][f] # Undefined} |-> list[p][k]]]

\* core.setOutput('published-count', n); core.setOutput('articles', JSON.stringify(list))
SetOutputs(n, list) == ("published-count" :> n) @@ ("articles" :> JsonStringify(list))

Notice(level, msg) == [level |-> level, msg |-> msg]

\* How one call of publishToDevTo ended: kind is "ok" when it returned result,
\* else what made it throw.
Outcome(f, kind, result) == [file |-> f, kind |-> kind, result |-> result]

\* The two error notices of a failed file: publishToDevTo's catch, then run's.
FileErrorNotices == <<Notice("error", "failed-to-publish"), Notice("error", "skipping")>>

(***************************************************************************)
(* Initial states.                                                         *)
(***************************************************************************)
InitCommon ==
    /\ publishedArticles = <<>>
    /\ files = <<>>
    /\ i = 0
    /\ frontMatter = EmptyFrontMatter
    /\ parsedContent = <<>>
    /\ article = <<>>
    /\ inflight = 0
    /\ reads = <<>>
    /\ posts = <<>>
    /\ logged = <<>>
    /\ delays = <<>>
    /\ outcomes = <<>>
    /\ log = <<>>
    /\ outputs = <<>>
    /\ failed = FALSE

\* The action starts: run() is called.
Init ==
    /\ inputs \in Inputs
    /\ dir \in Directories
    /\ pc = "start"
    /\ postsDirectory = <<>>
    /\ forcePublished = FALSE
    /\ dryRun = FALSE
    /\ filePath = <<>>
    /\ InitCommon

(***************************************************************************)
(* run                                                                     *)
(***************************************************************************)
\* getInput('api-key', { required: true }) throws: run's catch calls setFailed.
MissingApiKey ==
    /\ pc = "start"
    /\ InputMissing(inputs.apiKey)
    /\ failed' = TRUE
    /\ pc' = "done"
    /\ UNCHANGED <<inputs, dir, postsDirectory, forcePublished, dryRun, files, i,
                   publishedArticles, filePath, frontMatter, parsedContent, article, inflight,
                   reads, posts, logged, delays, outcomes, log, outputs>>

ReadInputs ==
    /\ pc = "start"
    /\ ~InputMissing(inputs.apiKey)
    /\ postsDirectory' = PostsDirectoryOf(inputs.postsDirectory)
    /\ forcePublished' = IsTrueInput(inputs.published)
    /\ dryRun' = IsTrueInput(inputs.dryRun)
    /\ log' = Append(log, Notice("info", "looking"))
    /\ pc' = "discover"
    /\ UNCHANGED <<inputs, dir, files, i, publishedArticles, filePath, frontMatter, parsedContent,
                   article, inflight, reads, posts, logged, delays, outcomes,
                   outputs, failed>>

\* if (!fs.existsSync(postsDirectory)) { ...; return; }
DirectoryMissing ==
    /\ pc = "discover"
    /\ dir.state = "absent"
    /\ log' = Append(log, Notice("warning", "directory-not-found"))
    /\ outputs' = SetOutputs(0, <<>>)
    /\ pc' = "done"
    /\ UNCHANGED <<inputs, dir, postsDirectory, forcePublished, dryRun, files, i,
                   publishedArticles, filePath, frontMatter, parsedContent, article, inflight,
                   reads, posts, logged, delays, outcomes, failed>>

\* fs.readdirSync throws (the path is no directory, or may not be listed): the
\* error reaches run's catch.
ListingFails ==
    /\ pc = "discover"
    /\ dir.state = "unlistable"
    /\ failed' = TRUE
    /\ pc' = "done"
    /\ UNCHANGED <<inputs, dir, postsDirectory, forcePublished, dryRun, files, i,
                   publishedArticles, filePath, frontMatter, parsedContent, article, inflight,
                   reads, posts, logged, delays, outcomes, log, outputs>>

\* if (files.length === 0) { ...; return; }
NoMarkdownFiles ==
    /\ pc = "discover"
    /\ dir.state = "listed"
    /\ DiscoverFiles(postsDirectory, dir.entries) = <<>>
    /\ files' = <<>>
    /\ log' = Append(log, Notice("info", "no-markdown-files"))
    /\ outputs' = SetOutputs(0, <<>>)
    /\ pc' = "done"
    /\ UNCHANGED <<inputs, dir, postsDirectory, forcePublished, dryRun, i,
                   publishedArticles, filePath, frontMatter, parsedContent, article, inflight,
                   reads, posts, logged, delays, outcomes, failed>>

FilesFound ==
    /\ pc = "discover"
    /\ dir.state = "listed"
    /\ DiscoverFiles(postsDirectory, dir.entries) # <<>>
    /\ files' = DiscoverFiles(postsDirectory, dir.entries)
    /\ log' = Append(log, Notice("info", "found"))
    /\ publishedArticles' = <<>>
    /\ i' = 1
    /\ pc' = "loop"
    /\ UNCHANGED <<inputs, dir, postsDirectory, forcePublished, dryRun, filePath,
                   frontMatter, parsedContent, article, inflight, reads, posts, logged, delays,
                   outcomes, outputs, failed>>

\* The file of the current iteration of for (const file of files).
File == files[i]

\* AwaitPost without the await: the loop goes on while the request is in flight.
AwaitPostMutantNoAwait == "loop"

\* await axios.post(...): the caller is suspended until the answer.
AwaitPost == "posting"

\* After publishToDevTo returned result: push it, then the pacing delay or the
\* next file.
ResultReturned(result) ==
    /\ outcomes' = Append(outcomes, Outcome(File, "ok", <<result>>))
    /\ publishedArticles' = Push(publishedArticles, result)
    /\ IF TakesDelay(dryRun, files, File)
       THEN /\ delays' = Append(delays, [after |-> i, ms |-> DelayMs])
            /\ pc' = "delay"
            /\ i' = i
       ELSE /\ delays' = delays
            /\ pc' = "loop"
            /\ i' = i + 1

\* ErrorThrown with the error leaving the loop: the remaining files are skipped.
ErrorThrownMutantAborts(kind) ==
    /\ outcomes' = Append(outcomes, Outcome(File, kind, <<>>))
    /\ log' = log \o FileErrorNotices
    /\ pc' = "loop"
    /\ i' = Len(files) + 1
    /\ UNCHANGED <<publishedArticles, delays>>

\* After publishToDevTo threw: both catch blocks log, the loop goes on.
ErrorThrown(kind) ==
    /\ outcomes' = Append(outcomes, Outcome(File, kind, <<>>))
    /\ log' = log \o FileErrorNotices
    /\ pc' = "loop"
    /\ i' = i + 1
    /\ UNCHANGED <<publishedArticles, delays>>

\* fs.readFileSync throws.
FileReadFails ==
    /\ pc = "loop"
    /\ i <= Len(files)
    /\ filePath' = File
    /\ reads' = Append(reads, File)
    /\ article' = <<>>
    /\ ErrorThrown("read-error")
    /\ UNCHANGED <<inputs, dir, postsDirectory, forcePublished, dryRun, files,
                   frontMatter, parsedContent, inflight, posts, logged, outputs, failed>>

\* matter(fileContent) throws.
FileParseFails ==
    /\ pc = "loop"
    /\ i <= Len(files)
    /\ filePath' = File
    /\ reads' = Append(reads, File)
    /\ article' = <<>>
    /\ ErrorThrown("parse-error")
    /\ UNCHANGED <<inputs, dir, postsDirectory, forcePublished, dryRun, files,
                   frontMatter, parsedContent, inflight, posts, logged, outputs, failed>>

\* The file is read and mapped; dry run: the payload is logged and the
\* placeholder result returned.
FileDryRun ==
    /\ pc = "loop"
    /\ i <= Len(files)
    /\ dryRun
    /\ \E fm \in RunFrontMatters, content \in Contents :
          /\ filePath' = File
          /\ reads' = Append(reads, File)
          /\ frontMatter' = fm
          /\ parsedContent' = content
          /\ article' = <<>>
          /\ logged' = <<Payload(fm, File, content, forcePublished)>>
          /\ log' = log \o <<Notice("info", "dry-run-would-publish"),
                              Notice("info", "dry-run-article-data")>>
          /\ ResultReturned(DryRunResult(Title(fm, File)))
    /\ UNCHANGED <<inputs, dir, postsDirectory, forcePublished, dryRun, files,
                   inflight, posts, outputs, failed>>

\* The file is read and mapped; the payload is POSTed and the call waits.
FileSubmit ==
    /\ pc = "loop"
    /\ i <= Len(files)
    /\ ~dryRun
    /\ \E fm \in RunFrontMatters, content \in Contents :
          /\ filePath' = File
          /\ reads' = Append(reads, File)
          /\ frontMatter' = fm
          /\ parsedContent' = content
          /\ article' = <<Payload(fm, File, content, forcePublished)>>
    /\ posts' = Append(posts, File)
    /\ inflight' = inflight + 1
    /\ pc' = AwaitPost
    /\ UNCHANGED <<inputs, dir, postsDirectory, forcePublished, dryRun, files, i,
                   publishedArticles, logged, delays, outcomes, log, outputs,
                   failed>>

\* axios.post resolves with a 2xx answer.
PostSucceeds ==
    /\ pc = "posting"
    /\ inflight' = inflight - 1
    /\ article' = <<>>
    /\ log' = log \o <<Notice("info", "published"), Notice("info", "article-url")>>
    /\ \E data \in ResponseData : ResultReturned(SuccessResult(data))
    /\ UNCHANGED <<inputs, dir, postsDirectory, forcePublished, dryRun, files,
                   filePath, frontMatter, parsedContent, reads, posts, logged, outputs, failed>>

\* axios.post rejects.
PostFails ==
    /\ pc = "posting"
    /\ inflight' = inflight - 1
    /\ article' = <<>>
    /\ \E kind \in PostErrors : ErrorThrown(kind)
    /\ UNCHANGED <<inputs, dir, postsDirectory, forcePublished, dryRun, files,
                   filePath, frontMatter, parsedContent, reads, posts, logged, outputs, failed>>

\* The timer of the pacing delay fires.
DelayElapses ==
    /\ pc = "delay"
    /\ pc' = "loop"
    /\ i' = i + 1
    /\ UNCHANGED <<inputs, dir, postsDirectory, forcePublished, dryRun, files,
                   publishedArticles, filePath, frontMatter, parsedContent, article, inflight,
                   reads, posts, logged, delays, outcomes, log, outputs, failed>>

\* The loop is over: the summary and the outputs.
Finish ==
    /\ pc = "loop"
    /\ i > Len(files)
    /\ log' = Append(log, Notice("info", "processed"))
    /\ outputs' = SetOutputs(Len(publishedArticles), publishedArticles)
    /\ pc' = "done"
    /\ UNCHANGED <<inputs, dir, postsDirectory, forcePublished, dryRun, files, i,
                   publishedArticles, filePath, frontMatter, parsedContent, article, inflight,
                   reads, posts, logged, delays, outcomes, failed>>

Next ==
    \/ MissingApiKey
    \/ ReadInputs
    \/ DirectoryMissing
    \/ ListingFails
    \/ NoMarkdownFiles
    \/ FilesFound
    \/ FileReadFails
    \/ FileParseFails
    \/ FileDryRun
    \/ FileSubmit
    \/ PostSucceeds
    \/ PostFails
    \/ DelayElapses
    \/ Finish

Spec == Init /\ [][Next]_vars

(***************************************************************************)
(* publishToDevTo called directly, outside run.                            *)
(***************************************************************************)
InitCall ==
    /\ inputs = [apiKey |-> "key", postsDirectory |-> <<>>,
                 published |-> "false", dryRun |-> "false"]
    /\ dir = [state |-> "absent", entries |-> <<>>]
    /\ pc = "call"
    /\ postsDirectory = <<>>
    /\ forcePublished \in BOOLEAN
    /\ dryRun \in BOOLEAN
    /\ filePath \in {Join(<<"p">>, e) : e \in {d \in DirEntries : IsMarkdown(d)}}
    /\ InitCommon

\* fs.readFileSync throws: the catch logs and throws again.
CallReadFails ==
    /\ pc = "call"
    /\ reads' = Append(reads, filePath)
    /\ outcomes' = Append(outcomes, Outcome(filePath, "read-error", <<>>))
    /\ log' = Append(log, Notice("error", "failed-to-publish"))
    /\ pc' = "thrown"
    /\ UNCHANGED <<inputs, dir, postsDirectory, forcePublished, dryRun, files, i,
                   publishedArticles, filePath, frontMatter, parsedContent, article, inflight,
                   posts, logged, delays, outputs, failed>>

\* matter(fileContent) throws.
CallParseFails ==
    /\ pc = "call"
    /\ reads' = Append(reads, filePath)
    /\ outcomes' = Append(outcomes, Outcome(filePath, "parse-error", <<>>))
    /\ log' = Append(log, Notice("error", "failed-to-publish"))
    /\ pc' = "thrown"
    /\ UNCHANGED <<inputs, dir, postsDirectory, forcePublished, dryRun, files, i,
                   publishedArticles, filePath, frontMatter, parsedContent, article, inflight,
                   posts, logged, delays, outputs, failed>>

CallDryRun ==
    /\ pc = "call"
    /\ dryRun
    /\ \E fm \in FrontMatters, content \in Contents :
          /\ reads' = Append(reads, filePath)
          /\ frontMatter' = fm
          /\ parsedContent' = content
          /\ logged' = <<Payload(fm, filePath, content, forcePublished)>>
          /\ outcomes' = Append(outcomes,
                Outcome(filePath, "ok", <<DryRunResult(Title(fm, filePath))>>))
    /\ log' = log \o <<Notice("info", "dry-run-would-publish"),
                        Notice("info", "dry-run-article-data")>>
    /\ pc' = "returned"
    /\ UNCHANGED <<inputs, dir, postsDirectory, forcePublished, dryRun, files, i,
                   publishedArticles, filePath, article, inflight, posts, delays,
                   outputs, failed>>

CallSubmit ==
    /\ pc = "call"
    /\ ~dryRun
    /\ \E fm \in FrontMatters, content \in Contents :
          /\ reads' = Append(reads, filePath)
          /\ frontMatter' = fm
          /\ parsedContent' = content
          /\ article' = <<Payload(fm, filePath, content, forcePublished)>>
    /\ posts' = Append(posts, filePath)
    /\ inflight' = inflight + 1
    /\ pc' = "call-posting"
    /\ UNCHANGED <<inputs, dir, postsDirectory, forcePublished, dryRun, files, i,
                   publishedArticles, filePath, logged, delays, outcomes, log,
                   outputs, failed>>

CallPostSucceeds ==
    /\ pc = "call-posting"
    /\ inflight' = inflight - 1
    /\ article' = <<>>
    /\ log' = log \o <<Notice("info", "published"), Notice("info", "article-url")>>
    /\ \E data \in ResponseData :
          outcomes' = Append(outcomes, Outcome(filePath, "ok", <<SuccessResult(data)>>))
    /\ pc' = "returned"
    /\ UNCHANGED <<inputs, dir, postsDirectory, forcePublished, dryRun, files, i,
                   publishedArticles, filePath, frontMatter, parsedContent, reads, posts, logged,
                   delays, outputs, failed>>

CallPostFails ==
    /\ pc = "call-posting"
    /\ inflight' = inflight - 1
    /\ article' = <<>>
    /\ \E kind \in PostErrors :
          outcomes' = Append(outcomes, Outcome(filePath, kind, <<>>))
    /\ log' = Append(log, Notice("error", "failed-to-publish"))
    /\ pc' = "thrown"
    /\ UNCHANGED <<inputs, dir, postsDirectory, forcePublished, dryRun, files, i,
                   publishedArticles, filePath, frontMatter, parsedContent, reads, posts, logged,
                   delays, outputs, failed>>

NextCall ==
    \/ CallReadFails
    \/ CallParseFails
    \/ CallDryRun
    \/ CallSubmit
    \/ CallPostSucceeds
    \/ CallPostFails

PublishSpec == InitCall /\ [][NextCall]_vars

(***************************************************************************)
(* Properties.                                                             *)
(***************************************************************************)
Range(s) == {s[p] : p \in DOMAIN s}

NoDuplicates(s) == \A a, b \in DOMAIN s : a # b => s[a] # s[b]

\* The results of the calls that did not fail, in the order of the calls.
OkResults(os) ==
    LET ok == SelectSeq(os, LAMBDA o : o.kind = "ok")
    IN  [p \in 1..Len(ok) |-> ok[p].result[1]]

\* The run went through the loop and set its outputs.
BatchDone == pc = "done" /\ Len(files) > 0

\* C1: with a credential present and files discovered, every file is processed
\* in discovery order whatever the outcome of each; the list of results always
\* holds exactly the results of the files that did not fail so far, in order,
\* and at the end published-count is their number and articles lists them.
C1_PartialFailureAggregation ==
    /\ Len(outcomes) <= Len(files)
    /\ \A k \in 1..Len(outcomes) : outcomes[k].file = files[k]
    /\ publishedArticles = OkResults(outcomes)
    /\ BatchDone =>
         /\ Len(outcomes) = Len(files)
         /\ reads = files
         /\ outputs["published-count"] =
              Cardinality({k \in 1..Len(outcomes) : outcomes[k].kind = "ok"})
         /\ Len(outputs["articles"]) = outputs["published-count"]
         /\ \A p \in 1..Len(outputs["articles"]) :
              \A k \in DOMAIN OkResults(outcomes)[p] :
                 OkResults(outcomes)[p][k] # Undefined =>
                    /\ k \in DOMAIN outputs["articles"][p]
                    /\ outputs["articles"][p][k] = OkResults(outcomes)[p][k]

\* A batch of three files whose second file failed, reported with a count of 2.
C1_Witness ==
    /\ BatchDone
    /\ Len(outcomes) = 3
    /\ outcomes[1].kind = "ok"
    /\ outcomes[2].kind = "api-error"
    /\ outcomes[3].kind = "ok"
    /\ outputs["published-count"] = 2

\* The title the filename of a path gives: hyphens to spaces, words capitalized.
ExpectedDerivedTitle(path) ==
    CASE EndsWith(path, <<"/", "m", "y", "-", "a", ".", "m", "d">>) -> <<"M", "y", " ", "A">>
      [] EndsWith(path, <<"/", "b", "_", "2", ".", "m", "d">>)      -> <<"B", "_", "2">>
      [] EndsWith(path, <<"/", "x", "-", "-", "y", ".", "m", "d">>) -> <<"X", " ", " ", "Y">>
      [] EndsWith(path, <<"/", "d", ".", "m", "d">>)                -> <<"D">>

\* The front-matter holds a title that is not falsy.
HasTitle(fm) ==
    /\ fm["title"].type \notin {"undefined", "null"}
    /\ fm["title"] \notin {Str(<<>>), Num(<<"0">>), Bool(FALSE)}

\* C2: with the dry-run input 'true' no HTTP request is ever issued or in
\* flight, a call fails only on reading or parsing the file, and the result of
\* a file read and parsed is the placeholder url 'dry-run-url', the placeholder
\* id 'dry-run' and the computed title: the front-matter title, else the title
\* derived from the filename.
C2_DryRunNeverSubmits ==
    inputs.dryRun = "true" =>
        /\ posts = <<>>
        /\ inflight = 0
        /\ article = <<>>
        /\ \A k \in 1..Len(outcomes) :
              outcomes[k].kind \in {"ok", "read-error", "parse-error"}
        /\ (outcomes # <<>> /\ outcomes[Len(outcomes)].kind = "ok") =>
              /\ publishedArticles # <<>>
              /\ publishedArticles[Len(publishedArticles)] =
                   [url   |-> Str(<<"dry-run-url">>),
                    id    |-> Str(<<"dry-run">>),
                    title |-> IF HasTitle(frontMatter)
                              THEN frontMatter["title"]
                              ELSE Str(ExpectedDerivedTitle(filePath))]

\* A dry run of two files: one titled by its front-matter, one by its filename.
C2_Witness ==
    /\ inputs.dryRun = "true"
    /\ pc = "done"
    /\ Len(reads) = 2
    /\ Len(publishedArticles) = 2
    /\ publishedArticles[1].title = Str(<<"s">>)
    /\ publishedArticles[2].title = Str(<<"X", " ", " ", "Y">>)
    /\ publishedArticles[2].url = Str(<<"dry-run-url">>)

\* C3: the pacing delay of 1000 ms is taken after a file exactly when the run
\* is no dry run, the file was submitted and its call returned a result, and
\* the file is not the last one; it is taken at most once per file.
C3_PacingDelay ==
    /\ \A k \in 1..Len(outcomes) :
          (\E d \in DOMAIN delays : delays[d].after = k) <=>
             /\ inputs.dryRun # "true"
             /\ files[k] \in Range(posts)
             /\ outcomes[k].kind = "ok"
             /\ k < Len(files)
    /\ \A d \in DOMAIN delays : delays[d].ms = 1000 /\ delays[d].after <= Len(outcomes)
    /\ \A a, b \in DOMAIN delays : a < b => delays[a].after < delays[b].after
    /\ pc = "delay" => delays # <<>> /\ delays[Len(delays)].after = i

\* Three files, the second failed: one delay, after the first file only.
C3_Witness ==
    /\ pc = "done"
    /\ Len(files) = 3
    /\ outcomes[1].kind = "ok"
    /\ outcomes[2].kind = "network-error"
    /\ outcomes[3].kind = "ok"
    /\ Len(posts) = 3
    /\ delays = <<[after |-> 1, ms |-> 1000]>>

\* The credential is present and discovery finds nothing to publish: the
\* directory is absent, or its listing holds no name ending in '.md'.
DiscoveryMiss ==
    /\ inputs.apiKey # ""
    /\ \/ dir.state = "absent"
       \/ /\ dir.state = "listed"
          /\ \A p \in DOMAIN dir.entries : dir.entries[p] = <<"n", ".", "t", "x", "t">>

FileFailures == {"read-error", "parse-error", "network-error", "api-error"}

\* C8, as claimed: a missing credential fails the run before any file is read
\* or submitted, and nothing else ever marks the run failed: with a credential
\* the run ends with a report.
C8_OnlyMissingCredentialIsFatal ==
    /\ (inputs.apiKey = "" /\ pc = "done") =>
          failed /\ reads = <<>> /\ posts = <<>>
    /\ failed => inputs.apiKey = ""
    /\ (inputs.apiKey # "" /\ pc = "done") =>
          DOMAIN outputs = {"published-count", "articles"}

\* C8, amended: the run is marked failed exactly when the credential is missing
\* or the listing of the existing posts directory fails, in both cases before
\* any file is read or submitted and with no output set; a failure of a file
\* (read, parse, network, answer) never marks the run failed, and the run then
\* ends with a report.
C8_FatalOnlyOutsideFiles ==
    /\ (inputs.apiKey = "" /\ pc = "done") => failed
    /\ failed =>
          /\ inputs.apiKey = "" \/ dir.state = "unlistable"
          /\ reads = <<>>
          /\ posts = <<>>
          /\ outputs = <<>>
          /\ pc = "done"
    /\ (\E k \in DOMAIN outcomes : outcomes[k].kind \in FileFailures) => ~failed
    /\ (inputs.apiKey # "" /\ dir.state # "unlistable" /\ pc = "done") =>
          /\ ~failed
          /\ DOMAIN outputs = {"published-count", "articles"}

\* Three files failed, each in another way, and the run ended with a report.
C8_Witness ==
    /\ pc = "done"
    /\ Len(outcomes) = 3
    /\ outcomes[1].kind = "read-error"
    /\ outcomes[2].kind = "api-error"
    /\ outcomes[3].kind = "parse-error"
    /\ ~failed
    /\ outputs["published-count"] = 0

\* C10: files are processed one at a time in discovery order: at most one HTTP
\* request is in flight, the files read so far are the first files of the
\* listing in order, each read once, each submitted at most once and in that
\* order, and while the request of file i is in flight or its pacing delay
\* pending no later file has been read.
C10_Sequential ==
    /\ inflight \in {0, 1}
    /\ Len(reads) <= Len(files)
    /\ reads = SubSeq(files, 1, Len(reads))
    /\ NoDuplicates(posts)
    /\ \A a, b \in DOMAIN posts :
          a < b => IndexOf(files, posts[a]) < IndexOf(files, posts[b])
    /\ Range(posts) \subseteq Range(reads)
    /\ inflight = 1 <=> pc = "posting"
    /\ pc \in {"posting", "delay"} =>
          /\ Len(reads) = i
          /\ posts # <<>>
          /\ posts[Len(posts)] = files[i]
    /\ pc = "loop" => Len(reads) = i - 1

\* The request of the second file is in flight after that of the first.
C10_Witness ==
    /\ pc = "posting"
    /\ inflight = 1
    /\ i = 2
    /\ Len(posts) = 2
    /\ Len(delays) = 1

\* The payloads in use: logged by a dry run, or sent and awaiting the answer.
UsedPayloads == Range(logged) \cup Range(article)

\* An empty string or an empty sequence.
IsEmptyValue(v) == v.type \in {"string", "array"} /\ v.val = <<>>

\* A front-matter source that is absent (no key, or a key without a value),
\* an empty string or an empty sequence.
AbsentOrEmpty(v) == v.type \in {"undefined", "null"} \/ IsEmptyValue(v)

\* C4: no field of a payload that is logged by a dry run or sent to the API
\* holds an empty string or an empty sequence.
C4_NoEmptyFieldInPayload ==
    \A a \in UsedPayloads : \A k \in DOMAIN a : ~IsEmptyValue(a[k])

\* Front-matter with tags: [] and no description: both are pruned from the
\* logged payload, the title is kept.
C4_Witness ==
    /\ pc = "returned"
    /\ logged # <<>>
    /\ frontMatter["tags"] = Arr(<<>>)
    /\ frontMatter["description"] = Undefined
    /\ DOMAIN logged[1] = {"title", "body_markdown", "published"}

\* C5, as claimed: a mapped field is missing from the payload only when all its
\* front-matter sources are absent, an empty string or an empty sequence; a
\* value that is false, 0 or non-empty is never removed: the value of a field
\* with one source reaches the payload as it is.
C5_OnlyEmptyValuesRemoved ==
    \A a \in UsedPayloads :
        /\ \A f \in ArticleFields \ {"body_markdown"} :
              f \notin DOMAIN a => \A k \in Sources(f) : AbsentOrEmpty(frontMatter[k])
        /\ \A f \in {"tags", "description", "canonical_url", "series"} :
              ~AbsentOrEmpty(frontMatter[f]) => f \in DOMAIN a /\ a[f] = frontMatter[f]

\* C6: the payload's published field is the OR of the override and the
\* front-matter value: true whenever the override is set, true whenever the
\* front-matter says true, false when the override is not set and the
\* front-matter says false or nothing.
C6_PublishedIsOr ==
    \A a \in UsedPayloads :
        /\ forcePublished => "published" \in DOMAIN a /\ a["published"] = Bool(TRUE)
        /\ frontMatter["published"] = Bool(TRUE) =>
              "published" \in DOMAIN a /\ a["published"] = Bool(TRUE)
        /\ (~forcePublished /\ frontMatter["published"] \in {Bool(FALSE), Undefined}) =>
              "published" \in DOMAIN a /\ a["published"] = Bool(FALSE)

\* An override of false with front-matter published: true is sent as true.
C6_Witness ==
    /\ pc = "call-posting"
    /\ ~forcePublished
    /\ frontMatter["published"] = Bool(TRUE)
    /\ article # <<>>
    /\ article[1]["published"] = Bool(TRUE)

\* The article fields with two front-matter sources, first source first.
Chains ==
    {<<"main_image", "cover_image", "main_image">>,
     <<"organization_id", "organization_id", "organization">>,
     <<"created_at", "created_at", "date">>,
     <<"edited_at", "edited_at", "updated">>}

\* C9, as claimed: a field with two sources takes the first source that is
\* present and non-empty, the second only when the first is absent or empty,
\* and is absent from the payload only when both are absent or empty.
C9_FirstNonEmptySourceWins ==
    \A a \in UsedPayloads : \A c \in Chains :
        LET first  == frontMatter[c[2]]
            second == frontMatter[c[3]]
        IN  /\ ~AbsentOrEmpty(first) => c[1] \in DOMAIN a /\ a[c[1]] = first
            /\ (AbsentOrEmpty(first) /\ ~AbsentOrEmpty(second)) =>
                  c[1] \in DOMAIN a /\ a[c[1]] = second
            /\ (AbsentOrEmpty(first) /\ AbsentOrEmpty(second)) => c[1] \notin DOMAIN a

\* The payloads sent to the API: the article of a request in flight.
SentPayloads == Range(article)

PublishedFalsy(fm) ==
    \/ fm["published"].type \in {"undefined", "null"}
    \/ fm["published"] \in {Str(<<>>), Num(<<"0">>), Bool(FALSE)}

====
